---- MODULE Spec2Model ----
(***************************************************************************)
(* Model of conformance/src/reporting.py: generate_summary and             *)
(* generate_summary_html.  The run is one sequential walk: template read,  *)
(* header row (one version record per type checker), detail table (one     *)
(* cell per test group member and type checker), summary statistics table  *)
(* (version record read again), return, single write of results.html.      *)
(*                                                                         *)
(* Strings that the code only compares for equality are TLA+ strings.      *)
(* Strings that the code trims, splits or searches are sequences of atoms; *)
(* an atom is a piece of text that the code never cuts in two.             *)
(***************************************************************************)
EXTENDS Integers, Sequences, FiniteSets, TLC

(* ------------------------------ bounds --------------------------------- *)
NumTools == 2
MaxGroups == 2
MaxCases == 2
MaxDiffLen == 4
ShortDiffLen == 2
MaxNotesLen == 1

(* ------------------------------- text ---------------------------------- *)
\* Atoms of free text.  ": Expected" followed by " " is the false-negative
\* marker ": Expected "; ": Unexpected errors" is the false-positive marker.
Atoms == {"x", " ", "\n", ": Expected", ": Unexpected errors"}
NoteAtoms == {"x", " ", "\n"}
Whitespace == {" ", "\n"}
ExpectedMarker == <<": Expected", " ">>
UnexpectedMarker == <<": Unexpected errors">>

TextsUpTo(alphabet, n) == UNION {[1..k -> alphabet] : k \in 0..n}

\* str.strip(): drop the leading and the trailing run of whitespace
RECURSIVE LStrip(_)
LStrip(s) == IF s # <<>> /\ Head(s) \in Whitespace THEN LStrip(Tail(s)) ELSE s
RECURSIVE RStrip(_)
RStrip(s) ==
  IF s # <<>> /\ s[Len(s)] \in Whitespace THEN RStrip(SubSeq(s, 1, Len(s) - 1)) ELSE s
Strip(s) == RStrip(LStrip(s))

\* str.split("\n"): always at least one (possibly empty) line
RECURSIVE SplitFrom(_, _)
SplitFrom(s, line) ==
  IF s = <<>> THEN <<line>>
  ELSE IF Head(s) = "\n" THEN <<line>> \o SplitFrom(Tail(s), <<>>)
  ELSE SplitFrom(Tail(s), Append(line, Head(s)))
Split(s) == SplitFrom(s, <<>>)

\* marker in line
Contains(line, marker) ==
  \E i \in 1..(Len(line) - Len(marker) + 1) :
     SubSeq(line, i, i + Len(marker) - 1) = marker

\* len([l for l in lines if marker in l])
CountMatching(lines, marker) ==
  Cardinality({i \in DOMAIN lines : Contains(lines[i], marker)})

(* ----------------------------- records --------------------------------- *)
\* A decoded TOML document is a mapping from field names to values.
EmptyMap == [k \in {} |-> 0]
\* dict.get(key, default)
Get(d, key, default) == IF key \in DOMAIN d THEN d[key] ELSE default
\* dict.get(key): None when the key is absent
None == "None"

(* ----------------------- cell classification --------------------------- *)
raw_notes(results) == Strip(Get(results, "notes", <<>>))
raw_errors_diff(results) == Strip(Get(results, "errors_diff", <<>>))

conformance_PromoteAlways(results) ==
  LET conformance == Get(results, "conformant", "Unknown")
      automated == Get(results, "conformance_automated", None)
  IN IF automated = "Pass" THEN "Pass" ELSE conformance
\* the effective verdict: manual verdict, "Unknown" promoted by the automated one
conformance(results) ==
  LET manual == Get(results, "conformant", "Unknown")
  IN IF manual = "Unknown"
       THEN (IF Get(results, "conformance_automated", None) = "Pass"
               THEN "Pass" ELSE manual)
       ELSE manual

false_negative_count_Untrimmed(results) ==
  CountMatching(Split(Get(results, "errors_diff", <<>>)), ExpectedMarker)
false_negative_count(results) ==
  CountMatching(Split(raw_errors_diff(results)), ExpectedMarker)

RECURSIVE Occurrences(_, _)
Occurrences(s, marker) ==
  IF Len(s) < Len(marker) THEN 0
  ELSE (IF SubSeq(s, 1, Len(marker)) = marker THEN 1 ELSE 0)
       + Occurrences(Tail(s), marker)
false_positive_count_Occurrences(results) ==
  Occurrences(raw_errors_diff(results), UnexpectedMarker)
false_positive_count(results) ==
  CountMatching(Split(raw_errors_diff(results)), UnexpectedMarker)

ZeroStats == [passes |-> 0, partial |-> 0, false_positives |-> 0, false_negatives |-> 0]

Attribute_UnknownSkipped(stats, verdict, fn, fp) ==
  [passes |-> stats.passes + (IF verdict = "Pass" THEN 1 ELSE 0),
   partial |-> stats.partial + (IF verdict = "Partial" THEN 1 ELSE 0),
   false_negatives |-> stats.false_negatives + fn,
   false_positives |-> stats.false_positives + fp]
Attribute_ElseBranch(stats, verdict, fn, fp) ==
  [passes |-> stats.passes + (IF verdict = "Pass" THEN 1 ELSE 0),
   partial |-> stats.partial + (IF verdict # "Pass" THEN 1 ELSE 0),
   false_negatives |-> stats.false_negatives + fn,
   false_positives |-> stats.false_positives + fp]
\* statistics attribution of one cell to its type checker's counters
Attribute(stats, verdict, fn, fp) ==
  [passes |-> stats.passes + (IF verdict = "Pass" THEN 1 ELSE 0),
   partial |-> stats.partial
               + (IF verdict # "Pass" /\ verdict \in {"Partial", "Unknown"} THEN 1 ELSE 0),
   false_negatives |-> stats.false_negatives + fn,
   false_positives |-> stats.false_positives + fp]

conformance_class_UnknownPartial(verdict) ==
  IF verdict = "Pass" THEN "conformant"
  ELSE IF verdict \in {"Partial", "Unknown"} THEN "partially-conformant"
  ELSE "not-conformant"
conformance_class(verdict) ==
  IF verdict = "Pass" THEN "conformant"
  ELSE IF verdict = "Partial" THEN "partially-conformant"
  ELSE "not-conformant"

\* The cell text.  A label is a tuple of its pieces:
\* <<"Unknown (", fn, "f-/", fp, "f+)">> stands for f"Unknown ({fn}f-/{fp}f+)".
conformance_cell(verdict, notes, fn, fp) ==
  LET starred == IF notes # <<>> /\ verdict = "Pass" THEN "Pass*" ELSE verdict
  IN IF starred = "Unknown" THEN <<"Unknown (", fn, "f-/", fp, "f+)">>
     ELSE <<starred>>

\* The tooltip: a notes block (one paragraph per line), then an errors-diff block.
expander_content(notes, errors_diff) ==
  (IF notes # <<>> THEN <<[block |-> "Notes:", lines |-> Split(notes)]>> ELSE <<>>)
  \o (IF errors_diff # <<>>
        THEN <<[block |-> "Errors Diff:", lines |-> Split(errors_diff)]>> ELSE <<>>)

\* everything the code derives from one decoded result record
RenderCell(results) ==
  LET verdict == conformance(results)
      fn == false_negative_count(results)
      fp == false_positive_count(results)
  IN [conformance |-> verdict,
      false_negative_count |-> fn,
      false_positive_count |-> fp,
      class |-> conformance_class(verdict),
      label |-> conformance_cell(verdict, raw_notes(results), fn, fp),
      expander |-> expander_content(raw_notes(results), raw_errors_diff(results))]

(* ------------------------------ catalog -------------------------------- *)
\* the registered type checkers, in registration order
TYPE_CHECKERS == 1..NumTools

\* names a catalog may use; a case file name is its stem followed by ".py"
GroupNames == {<<"a">>, <<"a", "_", "b">>}
CaseFiles == {<<"a", "_", "x", ".py">>, <<"a", "_", "b", "_", "x", ".py">>,
              <<"c", "_", "x", ".py">>}

\* Path.stem: the name without its final suffix
Stem(name) == SubSeq(name, 1, Len(name) - 1)
Stems == {Stem(n) : n \in CaseFiles}

\* ordered mappings of distinct group names
GroupCatalogs ==
  {g \in UNION {[1..k -> GroupNames] : k \in 0..MaxGroups} :
     \A i, j \in DOMAIN g : i # j => g[i] # g[j]}
\* a directory listing: every file name once
CaseCatalogs == {c \in SUBSET CaseFiles : Cardinality(c) <= MaxCases}

\* str.startswith
StartsWith(s, prefix) ==
  Len(s) >= Len(prefix) /\ SubSeq(s, 1, Len(prefix)) = prefix

\* character order of the first character of each atom
Rank(a) == CASE a = ".py" -> 0 [] a = "_" -> 1 [] a = "a" -> 2 [] a = "b" -> 3
             [] a = "c" -> 4 [] a = "x" -> 5
\* s < t on strings
RECURSIVE NameLess(_, _)
NameLess(s, t) ==
  IF t = <<>> THEN FALSE
  ELSE IF s = <<>> THEN TRUE
  ELSE IF Head(s) = Head(t) THEN NameLess(Tail(s), Tail(t))
  ELSE Rank(Head(s)) < Rank(Head(t))
\* list.sort(key=lambda x: x.name)
RECURSIVE SortByName(_)
SortByName(S) ==
  IF S = {} THEN <<>>
  ELSE LET least == CHOOSE n \in S : \A m \in S \ {n} : NameLess(n, m)
       IN <<least>> \o SortByName(S \ {least})

TestsInGroup_Unfiltered(cases, test_group_name) == SortByName(cases)
\* the members of one group, sorted by name
TestsInGroup(cases, test_group_name) ==
  SortByName({c \in cases : StartsWith(c, test_group_name \o <<"_">>)})

(* ------------------------------- files --------------------------------- *)
\* A file is missing, present but not valid TOML, or a decodable document.
File(status, data) == [status |-> status, data |-> data]
MissingFile == File("missing", EmptyMap)
MalformedFile == File("malformed", EmptyMap)

VersionFiles ==
  {MissingFile, MalformedFile, File("ok", EmptyMap),
   File("ok", [version |-> ""]), File("ok", [version |-> "checker 1.0"])}

\* an absent field is <<>>, a present one <<value>>
Opt(S) == {<<>>} \cup {<<v>> : v \in S}
ResultMap(c, a, n, e) ==
  LET field == [conformant |-> c, conformance_automated |-> a,
                notes |-> n, errors_diff |-> e]
  IN [k \in {f \in DOMAIN field : field[f] # <<>>} |-> field[k][1]]
ResultFiles(C, A, N, E) ==
  {MissingFile, MalformedFile}
  \cup {File("ok", ResultMap(c, a, n, e)) :
          c \in Opt(C), a \in Opt(A), n \in Opt(N), e \in Opt(E)}

\* result files the walk may meet
WalkFiles ==
  {MissingFile, MalformedFile,
   File("ok", [conformant |-> "Pass", notes |-> <<"x">>,
               errors_diff |-> <<"x", ": Expected", " ", "x", "\n",
                                 "x", ": Unexpected errors">>]),
   File("ok", [conformant |-> "Partial", conformance_automated |-> "Pass"]),
   File("ok", [conformant |-> "Unsupported"])}
\* result files for the classification of a single cell: every combination
\* of the four fields with an errors_diff of at most one atom, every manual
\* verdict with every short errors_diff, and every errors_diff up to the full
\* length with the manual verdict "Pass" and without one
CellFiles ==
  ResultFiles({"Pass", "Partial", "Unknown", "Unsupported"}, {"Pass", "Fail"},
              TextsUpTo(NoteAtoms, MaxNotesLen), TextsUpTo(Atoms, 1))
  \cup ResultFiles({"Pass", "Partial", "Unknown", "Unsupported"}, {}, {},
                   TextsUpTo(Atoms, ShortDiffLen))
  \cup ResultFiles({"Pass"}, {}, {}, TextsUpTo(Atoms, MaxDiffLen))

(* ------------------------------- state --------------------------------- *)
VARIABLES
  test_groups,      \* get_test_groups(root_dir): ordered group names
  test_cases,       \* get_test_cases(...): the case files
  version_files,    \* results/{tool}/version.toml, per type checker
  pc,               \* where the run is
  gi, ci, ti,       \* current group, case within the group, type checker
  tests_in_group,   \* sorted members of the current group
  summary_stats,    \* per type checker: the four counters
  header,           \* version labels rendered in the header row
  group_rows,       \* group heading rows rendered so far
  results_file,     \* the result file opened last
  cell,             \* the cell rendered last
  evaluated,        \* per (case stem, type checker): cells rendered for it
  stat_rows,        \* rows of the summary statistics table rendered so far
  written,          \* number of writes to results/results.html
  raised            \* the exception that ended the run, if any

vars == <<test_groups, test_cases, version_files, pc, gi, ci, ti, tests_in_group,
          summary_stats, header, group_rows, results_file, cell, evaluated,
          stat_rows, written, raised>>

catalog == <<test_groups, test_cases, version_files>>

NoCell == [conformance |-> "", false_negative_count |-> 0, false_positive_count |-> 0,
           class |-> "", label |-> <<>>, expander |-> <<>>]

Init ==
  /\ test_groups \in GroupCatalogs
  /\ test_cases \in CaseCatalogs
  /\ version_files \in [TYPE_CHECKERS -> VersionFiles]
  /\ pc = "start"
  /\ gi = 1 /\ ci = 1 /\ ti = 1
  /\ tests_in_group = <<>>
  /\ summary_stats = [t \in TYPE_CHECKERS |-> ZeroStats]
  /\ header = <<>>
  /\ group_rows = <<>>
  /\ results_file = MissingFile
  /\ cell = NoCell
  /\ evaluated = [p \in Stems \X TYPE_CHECKERS |-> 0]
  /\ stat_rows = <<>>
  /\ written = 0
  /\ raised = "none"

Abort(exception) == pc' = "aborted" /\ raised' = exception

(* ------------------------------ actions -------------------------------- *)
\* generate_summary: the template is read before anything is rendered
ReadTemplate ==
  /\ pc = "start"
  /\ \/ pc' = "header" /\ UNCHANGED raised
     \/ Abort("FileNotFoundError")
  /\ UNCHANGED <<catalog, gi, ci, ti, tests_in_group, summary_stats, header,
                 group_rows, results_file, cell, evaluated, stat_rows, written>>

\* both version loaders: a missing or undecodable record is an empty mapping
LoadVersion(file) == IF file.status = "ok" THEN file.data ELSE EmptyMap

\* one header cell: existing_info["version"] or "Unknown version"
HeaderCell ==
  /\ pc = "header"
  /\ LET existing_info == LoadVersion(version_files[ti])
     IN IF "version" \in DOMAIN existing_info
          THEN /\ header' = Append(header,
                              IF existing_info["version"] = "" THEN "Unknown version"
                              ELSE existing_info["version"])
               /\ IF ti < NumTools
                    THEN ti' = ti + 1 /\ pc' = "header"
                    ELSE ti' = 1 /\ pc' = "group"
               /\ UNCHANGED raised
          ELSE /\ Abort("KeyError")
               /\ UNCHANGED <<header, ti>>
  /\ UNCHANGED <<catalog, gi, ci, tests_in_group, summary_stats, group_rows,
                 results_file, cell, evaluated, stat_rows, written>>

\* the head of the loop over test groups: filter, sort, heading row
EnterGroup ==
  /\ pc = "group"
  /\ gi <= Len(test_groups)
  /\ tests_in_group' = TestsInGroup(test_cases, test_groups[gi])
  /\ IF Len(tests_in_group') > 0
       THEN /\ group_rows' = Append(group_rows, test_groups[gi])
            /\ pc' = "cell" /\ ci' = 1 /\ ti' = 1
            /\ UNCHANGED gi
       ELSE /\ gi' = gi + 1
            /\ UNCHANGED <<group_rows, pc, ci, ti>>
  /\ UNCHANGED <<catalog, summary_stats, header, results_file, cell, evaluated,
                 stat_rows, written, raised>>

\* the detail table is closed and the summary statistics table opened
EndDetail ==
  /\ pc = "group"
  /\ gi > Len(test_groups)
  /\ pc' = "summary" /\ ti' = 1
  /\ UNCHANGED <<catalog, gi, ci, tests_in_group, summary_stats, header, group_rows,
                 results_file, cell, evaluated, stat_rows, written, raised>>

\* one cell of the detail table; the file found at the path is an input
EvalCell(files) ==
  /\ pc = "cell"
  /\ \E file \in files :
       /\ results_file' = file
       /\ IF file.status = "malformed"
            THEN /\ Abort("TOMLDecodeError")
                 /\ UNCHANGED <<summary_stats, cell, evaluated, gi, ci, ti>>
            ELSE LET results == IF file.status = "missing" THEN EmptyMap ELSE file.data
                     rendered == RenderCell(results)
                     test_case_name == Stem(tests_in_group[ci])
                 IN /\ summary_stats' =
                         [summary_stats EXCEPT ![ti] =
                            Attribute(@, rendered.conformance,
                                      rendered.false_negative_count,
                                      rendered.false_positive_count)]
                    /\ cell' = rendered
                    /\ evaluated' = [evaluated EXCEPT ![<<test_case_name, ti>>] = @ + 1]
                    /\ IF ti < NumTools
                         THEN ti' = ti + 1 /\ UNCHANGED <<ci, gi, pc>>
                         ELSE /\ ti' = 1
                              /\ IF ci < Len(tests_in_group)
                                   THEN ci' = ci + 1 /\ UNCHANGED <<gi, pc>>
                                   ELSE ci' = 1 /\ gi' = gi + 1 /\ pc' = "group"
                    /\ UNCHANGED raised
  /\ UNCHANGED <<catalog, tests_in_group, header, group_rows, stat_rows, written>>

\* one row of the summary statistics table:
\* existing_info.get("version", "Unknown version") and the four counters
SummaryRow ==
  /\ pc = "summary"
  /\ LET existing_info == LoadVersion(version_files[ti])
     IN stat_rows' = Append(stat_rows,
                        [label |-> Get(existing_info, "version", "Unknown version"),
                         stats |-> summary_stats[ti]])
  /\ IF ti < NumTools
       THEN ti' = ti + 1 /\ pc' = "summary"
       ELSE ti' = 1 /\ pc' = "returned"
  /\ UNCHANGED <<catalog, gi, ci, tests_in_group, summary_stats, header, group_rows,
                 results_file, cell, evaluated, written, raised>>

WriteReport_BeforeSummaryTable ==
  /\ pc \in {"returned", "summary"}
  /\ \/ written' = written + 1 /\ pc' = "done" /\ UNCHANGED raised
     \/ Abort("OSError") /\ UNCHANGED written
  /\ UNCHANGED <<catalog, gi, ci, ti, tests_in_group, summary_stats, header,
                 group_rows, results_file, cell, evaluated, stat_rows>>
\* generate_summary: the rendered page is written to results/results.html
WriteReport ==
  /\ pc = "returned"
  /\ \/ written' = written + 1 /\ pc' = "done" /\ UNCHANGED raised
     \/ Abort("OSError") /\ UNCHANGED written
  /\ UNCHANGED <<catalog, gi, ci, ti, tests_in_group, summary_stats, header,
                 group_rows, results_file, cell, evaluated, stat_rows>>

Next ==
  \/ ReadTemplate
  \/ HeaderCell
  \/ EnterGroup
  \/ EndDetail
  \/ EvalCell(WalkFiles)
  \/ SummaryRow
  \/ WriteReport

Spec == Init /\ [][Next]_vars

(* ---------------- classification of a single cell --------------------- *)
\* The walk stands at the last cell of the only row of a one-group catalog;
\* the earlier cells of the row were "Unsupported" records without a diff.
UnsupportedFile == File("ok", [conformant |-> "Unsupported"])
InitCell ==
  /\ test_groups = << <<"a">> >>
  /\ test_cases = {<<"a", "_", "x", ".py">>}
  /\ version_files = [t \in TYPE_CHECKERS |-> File("ok", [version |-> "checker 1.0"])]
  /\ pc = "cell"
  /\ gi = 1 /\ ci = 1 /\ ti = NumTools
  /\ tests_in_group = TestsInGroup(test_cases, <<"a">>)
  /\ summary_stats = [t \in TYPE_CHECKERS |-> ZeroStats]
  /\ header = [t \in TYPE_CHECKERS |-> "checker 1.0"]
  /\ group_rows = << <<"a">> >>
  /\ results_file = UnsupportedFile
  /\ cell = RenderCell(UnsupportedFile.data)
  /\ evaluated = [p \in Stems \X TYPE_CHECKERS |->
                    IF p[1] = <<"a", "_", "x">> /\ p[2] < NumTools THEN 1 ELSE 0]
  /\ stat_rows = <<>>
  /\ written = 0
  /\ raised = "none"

NextCell == EvalCell(CellFiles)

SpecCell == InitCell /\ [][NextCell]_vars

(* ------------------------- vocabulary of the claims -------------------- *)
\* a step that rendered a cell; ti is the type checker it belongs to
CellStep == pc = "cell" /\ evaluated' # evaluated
\* the mapping the cell rendered last was derived from
Loaded(file) == IF file.status = "ok" THEN file.data ELSE EmptyMap
\* number of cells rendered so far for one type checker
RECURSIVE SumOver(_, _)
SumOver(S, t) ==
  IF S = {} THEN 0
  ELSE LET c == CHOOSE c \in S : TRUE IN evaluated[<<c, t>>] + SumOver(S \ {c}, t)
EvaluatedFor(t) == SumOver(Stems, t)
\* number of catalog groups whose name followed by "_" starts the file name
Memberships(c) ==
  IF c \in test_cases
    THEN Cardinality({i \in DOMAIN test_groups :
                        StartsWith(c, test_groups[i] \o <<"_">>)})
    ELSE 0
\* the detail table is finished
WalkFinished == pc \in {"summary", "returned", "done"}
\* "\n".join(lines)
RECURSIVE Join(_)
Join(lines) ==
  IF Len(lines) = 0 THEN <<>>
  ELSE IF Len(lines) = 1 THEN lines[1]
  ELSE lines[1] \o <<"\n">> \o Join(Tail(lines))
\* all orders in which the positions of S can be visited
RECURSIVE Orders(_)
Orders(S) ==
  IF S = {} THEN {<<>>}
  ELSE UNION {{<<i>> \o o : o \in Orders(S \ {i})} : i \in S}
\* all reorderings of a list of lines
Reorderings(lines) ==
  {[i \in DOMAIN lines |-> lines[o[i]]] : o \in Orders(DOMAIN lines)}
DiffOf(text) == [errors_diff |-> text]

(* ------------------------------- claims -------------------------------- *)
\* C1: a type checker whose version record is missing, or has no `version`
\* field, does not abort the run; its header cell and its summary row label
\* both read "Unknown version".
C1_UnknownVersionShown ==
  \A t \in TYPE_CHECKERS :
    (version_files[t].status = "missing" \/ version_files[t] = File("ok", EmptyMap))
      => /\ ~(pc = "aborted" /\ raised = "KeyError" /\ ti = t)
         /\ (Len(header) >= t => header[t] = "Unknown version")
         /\ (Len(stat_rows) >= t => stat_rows[t].label = "Unknown version")

\* C2: a per-case result file that exists but fails to parse is handled like
\* a missing one: the run does not end there.
C2_MalformedResultNotFatal ==
  results_file.status = "malformed" => pc # "aborted"

\* C3 as stated: a cell whose result file is missing is "not-conformant" and
\* leaves all four counters of its type checker unchanged.
C3_MissingContributesNothing ==
  [][CellStep /\ results_file'.status = "missing"
       => cell'.class = "not-conformant" /\ summary_stats' = summary_stats]_vars

\* C3 amended: a cell whose result file is missing is "not-conformant", adds 1
\* to its type checker's `partial` counter and leaves passes, false_positives
\* and false_negatives (and every other type checker's counters) unchanged.
C3_MissingCountsAsPartial ==
  [][CellStep /\ results_file'.status = "missing"
       => /\ cell'.class = "not-conformant"
          /\ summary_stats' =
               [summary_stats EXCEPT ![ti].partial = @ + 1]]_vars

C3_Witness ==
  /\ results_file.status = "missing"
  /\ \E t \in TYPE_CHECKERS : EvaluatedFor(t) > 0 /\ summary_stats[t].partial > 0
  /\ cell.class = "not-conformant"
  /\ cell.label = <<"Unknown (", 0, "f-/", 0, "f+)">>

\* C4 as stated: a finished run has evaluated every (case, tool) pair of the
\* catalog exactly once, whatever the case and group names are.
C4_EveryPairExactlyOnce ==
  pc = "done" =>
    \A c \in test_cases, t \in TYPE_CHECKERS : evaluated[<<Stem(c), t>>] = 1

\* C4 amended: a pair is evaluated once for every catalog group whose name
\* followed by "_" is a prefix of the case's file name: never more often than
\* that during the walk, and exactly that often once the detail table is
\* finished (so not at all for a case of no group, and never for a file that
\* is not in the catalog).
C4_OncePerMembership ==
  \A c \in CaseFiles, t \in TYPE_CHECKERS :
    /\ evaluated[<<Stem(c), t>>] <= Memberships(c)
    /\ (WalkFinished => evaluated[<<Stem(c), t>>] = Memberships(c))

C4_Witness ==
  /\ pc = "done"
  /\ \E c, d \in test_cases :
       /\ Memberships(c) = 2 /\ evaluated[<<Stem(c), NumTools>>] = 2
       /\ Memberships(d) = 0 /\ evaluated[<<Stem(d), NumTools>>] = 0

\* C5 as stated: every evaluated pair increments exactly one of passes and
\* partial, so passes + partial of a type checker equals the number of cells
\* evaluated for it.
C5_PassesPlusPartialIsEvaluated ==
  \A t \in TYPE_CHECKERS :
    summary_stats[t].passes + summary_stats[t].partial = EvaluatedFor(t)

\* C5 amended: every evaluated pair adds 1 to passes when its effective
\* verdict is "Pass", 1 to partial when it is "Partial" or "Unknown", and to
\* neither for any other verdict (never to both); so passes + partial of a
\* type checker never exceeds the number of cells evaluated for it.
C5_AtMostOneBucket ==
  /\ [](\A t \in TYPE_CHECKERS :
          summary_stats[t].passes + summary_stats[t].partial <= EvaluatedFor(t))
  /\ [][CellStep =>
          /\ summary_stats'[ti].passes =
               summary_stats[ti].passes + (IF cell'.conformance = "Pass" THEN 1 ELSE 0)
          /\ summary_stats'[ti].partial =
               summary_stats[ti].partial
               + (IF cell'.conformance \in {"Partial", "Unknown"} THEN 1 ELSE 0)
          /\ \A t \in TYPE_CHECKERS \ {ti} : summary_stats'[t] = summary_stats[t]]_vars

C5_Witness ==
  /\ pc = "done"
  /\ \E t \in TYPE_CHECKERS :
       /\ summary_stats[t].passes >= 1
       /\ summary_stats[t].partial >= 1
       /\ summary_stats[t].passes + summary_stats[t].partial < EvaluatedFor(t)

\* C6: the effective verdict is the manual `conformant` field ("Unknown" when
\* absent), except that "Unknown" with conformance_automated = "Pass" becomes
\* "Pass", for the label and for the statistics alike; an explicit "Pass" or
\* "Partial" is kept, and "Partial" is effective only when it is the manual one.
C6_VerdictReconciliation ==
  [][CellStep =>
       LET results == Loaded(results_file')
           manual == Get(results, "conformant", "Unknown")
           automated == Get(results, "conformance_automated", None)
           promoted == manual = "Unknown" /\ automated = "Pass"
       IN /\ cell'.conformance = (IF promoted THEN "Pass" ELSE manual)
          /\ (manual \in {"Pass", "Partial"} => cell'.conformance = manual)
          /\ (cell'.conformance = "Partial" => manual = "Partial")
          /\ (promoted =>
                /\ cell'.label \in {<<"Pass">>, <<"Pass*">>}
                /\ cell'.class = "conformant"
                /\ summary_stats'[ti].passes = summary_stats[ti].passes + 1
                /\ summary_stats'[ti].partial = summary_stats[ti].partial)
          /\ (manual = "Partial" =>
                /\ cell'.label = <<"Partial">>
                /\ summary_stats'[ti].passes = summary_stats[ti].passes
                /\ summary_stats'[ti].partial = summary_stats[ti].partial + 1)]_vars

C6_Witness ==
  /\ results_file.status = "ok"
  /\ "conformant" \in DOMAIN results_file.data
  /\ results_file.data["conformant"] = "Unknown"
  /\ Get(results_file.data, "conformance_automated", None) = "Pass"
  /\ cell.conformance = "Pass"
  /\ summary_stats[NumTools].passes = 1

C8_WrittenOnceAfterRender ==
  /\ written <= 1
  /\ (written = 1 <=> pc = "done")
  /\ (written = 1 =>
        /\ Len(header) = NumTools
        /\ Len(stat_rows) = NumTools
        /\ \A c \in CaseFiles, t \in TYPE_CHECKERS :
             evaluated[<<Stem(c), t>>] = Memberships(c))
  /\ (pc = "aborted" => written = 0)

C8_Witness ==
  /\ pc = "done" /\ written = 1
  /\ Len(group_rows) >= 1
  /\ \A t \in TYPE_CHECKERS : EvaluatedFor(t) >= 1

\* C9: the class is "conformant" for "Pass", "partially-conformant" for
\* "Partial", "not-conformant" otherwise; the label is "Pass*" for "Pass" with
\* non-empty trimmed notes, "Unknown ({fn}f-/{fp}f+)" for "Unknown", the
\* verdict otherwise; a detail payload is attached exactly when the trimmed
\* notes or the trimmed errors_diff is non-empty.
C9_CellClassification ==
  [][CellStep =>
       LET results == Loaded(results_file')
           effective == cell'.conformance
           notes == Strip(Get(results, "notes", <<>>))
           diff == Strip(Get(results, "errors_diff", <<>>))
       IN /\ (effective = "Pass" => cell'.class = "conformant")
          /\ (effective = "Partial" => cell'.class = "partially-conformant")
          /\ (effective \notin {"Pass", "Partial"} => cell'.class = "not-conformant")
          /\ (effective = "Pass" /\ notes # <<>> => cell'.label = <<"Pass*">>)
          /\ (effective = "Unknown" =>
                cell'.label = <<"Unknown (", cell'.false_negative_count, "f-/",
                                cell'.false_positive_count, "f+)">>)
          /\ (~(effective = "Pass" /\ notes # <<>>) /\ effective # "Unknown"
                => cell'.label = <<effective>>)
          /\ (cell'.expander # <<>> <=> (notes # <<>> \/ diff # <<>>))]_vars

C9_Witness ==
  /\ results_file.status = "ok"
  /\ cell.label = <<"Pass*">>
  /\ cell.class = "conformant"
  /\ Len(cell.expander) = 2

====
